---- MODULE Spec2Model ----
(***************************************************************************)
(* Model of design_patterns/intro.py: Singleton, ShapeFactory, the GUI     *)
(* abstract factory, PizzaBuilder and Prototype.  The five patterns share  *)
(* no state; each has its own specification over its own variables, the    *)
(* variables of the other patterns staying at their initial values.        *)
(***************************************************************************)
EXTENDS Integers, Sequences, FiniteSets, TLC

VARIABLES
    instances,  \* heap of Singleton objects: instances[i] is the __dict__ of object i
    slot,       \* Singleton._instance (class attribute)
    refs,       \* references the single-threaded caller got from Singleton()
    pc,         \* per thread: position inside __new__ / initialize
    self,       \* per thread: reference the thread works on (returned by Singleton())
    arg,        \* per thread: the data argument of the running initialize
    pizzas,     \* heap of Pizza objects: pizzas[i] is the __dict__ of Pizza i
    builders,   \* heap of builder objects: class and the pizza attribute
    objs,       \* heap of prototype objects: class and __dict__
    lists,      \* heap of list objects a prototype's field may refer to
    pairs,      \* history: the clones made: source, clone, the source's field then,
                \* and whether the field of either was reassigned since
    shape_type, \* argument of the last create_shape call
    widgets,    \* the widgets the GUI factories created, in order
    stdout,     \* lines printed by create_ui
    calls,      \* history: the calls the caller made, in order
    ret         \* outcome of the last completed call

singletonVars == <<instances, slot, refs, pc, self, arg>>
pizzaVars == <<pizzas, builders>>
protoVars == <<objs, lists, pairs>>
shapeVars == <<shape_type>>
guiVars == <<widgets, stdout>>
vars == <<singletonVars, pizzaVars, protoVars, shapeVars, guiVars, calls, ret>>

----------------------------------------------------------------------------
(* Python values, tagged by type.                                          *)

PyNone == [t |-> "None"]
PyBool(b) == [t |-> "bool", v |-> b]
PyInt(n) == [t |-> "int", v |-> n]
PyStr(s) == [t |-> "str", v |-> s]
PyList(xs) == [t |-> "list", v |-> xs]
PyRef(i) == [t |-> "ref", v |-> i]

\* bool(v): None, False, 0, "" and [] are falsy; an object without
\* __bool__/__len__ (every class of intro.py) is truthy.
Truthy(v) ==
    CASE v.t = "None" -> FALSE
      [] v.t = "bool" -> v.v
      [] v.t = "int" -> v.v # 0
      [] v.t = "str" -> v.v # ""
      [] v.t = "list" -> v.v # <<>>
      [] OTHER -> TRUE

\* An object is its attribute dictionary; a fresh object has no attributes.
EmptyObj == [a \in {} |-> PyNone]
HasAttr(obj, a) == a \in DOMAIN obj
SetAttr(obj, a, v) == [b \in DOMAIN obj \cup {a} |-> IF b = a THEN v ELSE obj[b]]

\* Outcome of a call: a returned value or a raised exception, and the lines
\* it printed.
Returned(op, v, out) == [op |-> op, exc |-> "", val |-> v, printed |-> out]
Raised(op, e) == [op |-> op, exc |-> e, val |-> PyNone, printed |-> <<>>]
NoCall == Returned("", PyNone, <<>>)

----------------------------------------------------------------------------
(* Singleton                                                               *)

MaxCalls == 4
NThreads == 2
Data == {PyInt(0), PyInt(5), PyStr("cfg")}
Threads == 1..NThreads

\* Mutant: the emptiness check of the slot is dropped.
NewAlwaysConstructs(inst) == TRUE

\* line 19: if not cls._instance
NewMustConstruct(inst) == ~Truthy(inst)

\* Mutant: the slot is checked again at the assignment (as under a lock), and
\* an occupied slot is kept.
NewAssignGuarded(heap, inst) ==
    IF Truthy(inst)
    THEN [heap |-> heap, inst |-> inst]
    ELSE [heap |-> Append(heap, EmptyObj), inst |-> PyRef(Len(heap) + 1)]

\* line 20: cls._instance = super(Singleton, cls).__new__(cls)
\* A new, attribute-less, object is allocated and the slot is set to it,
\* whatever the slot holds by now.
NewAssign(heap, inst) ==
    [heap |-> Append(heap, EmptyObj), inst |-> PyRef(Len(heap) + 1)]

\* line 22: cls._instance._initialized = False   (reads the slot again)
NewSetFlag(heap, inst) ==
    [heap EXCEPT ![inst.v] = SetAttr(@, "_initialized", PyBool(FALSE))]

\* Singleton.__new__ run without interruption: the class state after it
\* and the reference it returns (line 23 reads the slot again).
SingletonNew(heap, inst) ==
    IF NewMustConstruct(inst)
    THEN LET a == NewAssign(heap, inst)
         IN  [heap |-> NewSetFlag(a.heap, a.inst), inst |-> a.inst, val |-> a.inst]
    ELSE [heap |-> heap, inst |-> inst, val |-> inst]

\* line 31
AlreadyMsg == "Singleton already initialized."

\* Mutant: initialize stores the data without looking at the flag.
InitializeOverwrites(heap, o, data) ==
    [heap |-> [heap EXCEPT ![o] =
                 SetAttr(SetAttr(@, "data", data), "_initialized", PyBool(TRUE))],
     ret |-> Returned("initialize", PyNone, <<>>)]

\* Singleton.initialize run without interruption on object o.
SingletonInitialize(heap, o, data) ==
    IF ~HasAttr(heap[o], "_initialized")
    THEN [heap |-> heap, ret |-> Raised("initialize", "AttributeError")]
    ELSE IF ~Truthy(heap[o]["_initialized"])
    THEN [heap |-> [heap EXCEPT ![o] =
                      SetAttr(SetAttr(@, "data", data), "_initialized", PyBool(TRUE))],
          ret |-> Returned("initialize", PyNone, <<>>)]
    ELSE [heap |-> heap,
          ret |-> Returned("initialize", PyNone, <<AlreadyMsg>>)]

\* Mutant: get_data answers None for a missing payload, as
\* getattr(self, "data", None) would.
GetDataDefaultsNone(heap, o) ==
    IF HasAttr(heap[o], "data")
    THEN [heap |-> heap, ret |-> Returned("get_data", heap[o]["data"], <<>>)]
    ELSE [heap |-> heap, ret |-> Returned("get_data", PyNone, <<>>)]

\* Singleton.get_data on object o: the attribute, or AttributeError when
\* no initialize has set it.
SingletonGetData(heap, o) ==
    IF HasAttr(heap[o], "data")
    THEN [heap |-> heap, ret |-> Returned("get_data", heap[o]["data"], <<>>)]
    ELSE [heap |-> heap, ret |-> Raised("get_data", "AttributeError")]

SingletonInit ==
    /\ instances = <<>>
    /\ slot = PyNone
    /\ refs = {}
    /\ pc = [t \in Threads |-> "idle"]
    /\ self = [t \in Threads |-> PyNone]
    /\ arg = [t \in Threads |-> PyNone]

\* The other patterns, untouched.
notSingleton == <<pizzaVars, protoVars, shapeVars, guiVars>>
PizzaIdle == pizzas = <<>> /\ builders = <<>>
ProtoIdle == objs = <<>> /\ lists = <<>> /\ pairs = {}
ShapeIdle == shape_type = <<>>
GuiIdle == widgets = <<>> /\ stdout = <<>>

\* Call records of the history.
CallNew == [op |-> "Singleton", data |-> PyNone]
CallInitialize(d) == [op |-> "initialize", data |-> d]
CallGetData == [op |-> "get_data", data |-> PyNone]

\* s = Singleton()
New ==
    /\ Len(calls) < MaxCalls
    /\ LET r == SingletonNew(instances, slot)
       IN  /\ instances' = r.heap
           /\ slot' = r.inst
           /\ refs' = refs \cup {r.val}
           /\ ret' = Returned("Singleton", r.val, <<>>)
    /\ calls' = Append(calls, CallNew)
    /\ UNCHANGED <<pc, self, arg, notSingleton>>

\* s.initialize(data) on a reference the caller holds
Initialize ==
    \E s \in refs, d \in Data :
        /\ Len(calls) < MaxCalls
        /\ LET r == SingletonInitialize(instances, s.v, d)
           IN  /\ instances' = r.heap
               /\ ret' = r.ret
        /\ calls' = Append(calls, CallInitialize(d))
        /\ UNCHANGED <<slot, refs, pc, self, arg, notSingleton>>

\* s.get_data() on a reference the caller holds
GetData ==
    \E s \in refs :
        /\ Len(calls) < MaxCalls
        /\ LET r == SingletonGetData(instances, s.v)
           IN  /\ instances' = r.heap
               /\ ret' = r.ret
        /\ calls' = Append(calls, CallGetData)
        /\ UNCHANGED <<slot, refs, pc, self, arg, notSingleton>>

Init ==
    /\ SingletonInit /\ PizzaIdle /\ ProtoIdle /\ ShapeIdle /\ GuiIdle
    /\ calls = <<>>
    /\ ret = NoCall
Next == New \/ Initialize \/ GetData
Spec == Init /\ [][Next]_vars

----------------------------------------------------------------------------
(* Singleton, single-threaded: claims                                      *)

LastCall == calls[Len(calls)]
IsInitializeCall(c) == c.op = "initialize"
InitializeCalls == SelectSeq(calls, IsInitializeCall)

\* C1: in single-threaded use every Singleton() call returns the same
\* instance: at most one object is ever constructed, the caller never holds
\* two different references, and the slot keeps the instance every call
\* returned (a later construction never replaces it).
C1_OneInstance ==
    /\ Len(instances) <= 1
    /\ Cardinality(refs) <= 1
    /\ (calls # <<>> => slot = PyRef(1) /\ refs = {slot})
    /\ (calls # <<>> /\ LastCall.op = "Singleton" => ret.val = PyRef(1))

\* Singleton() was called again after an initialize and a get_data.
C1_Witness ==
    /\ Len(calls) >= 4
    /\ LastCall.op = "Singleton"
    /\ \E i, j \in 1..Len(calls) :
          i < j /\ calls[i].op = "initialize" /\ calls[j].op = "get_data"

\* C2: initialize is idempotent: once initialize has been called the payload
\* is the argument of the first initialize call and the flag is set, whatever
\* constructions and initialize calls followed; a later initialize returns
\* normally and reports "already initialized", the first reports nothing.
C2_InitializeIdempotent ==
    /\ InitializeCalls # <<>> =>
          /\ HasAttr(instances[slot.v], "data")
          /\ instances[slot.v]["data"] = InitializeCalls[1].data
          /\ instances[slot.v]["_initialized"] = PyBool(TRUE)
    /\ (calls # <<>> /\ LastCall.op = "initialize") =>
          /\ ret.exc = ""
          /\ ret.printed = IF Len(InitializeCalls) >= 2 THEN <<AlreadyMsg>> ELSE <<>>

\* initialize(d1), then Singleton() again, then initialize(d2) with d2 # d1.
C2_Witness ==
    /\ calls # <<>>
    /\ LastCall.op = "initialize"
    /\ \E i, j \in 1..Len(calls) :
          /\ i < j /\ j < Len(calls)
          /\ calls[i].op = "initialize"
          /\ calls[j].op = "Singleton"
          /\ calls[i].data # LastCall.data

\* C3: get_data returns the stored payload once initialize has been called;
\* before any initialize it ends in an error, not a returned value, and the
\* singleton is as construction left it: the same instance in the slot, the
\* flag false, no payload.
C3_GetData ==
    (calls # <<>> /\ LastCall.op = "get_data") =>
        IF InitializeCalls # <<>>
        THEN ret = Returned("get_data", InitializeCalls[1].data, <<>>)
        ELSE /\ ret.exc # ""
             /\ slot = PyRef(1)
             /\ instances = <<SetAttr(EmptyObj, "_initialized", PyBool(FALSE))>>

\* get_data failed on a constructed, never initialized singleton.
C3_Witness ==
    /\ calls # <<>>
    /\ LastCall.op = "get_data"
    /\ InitializeCalls = <<>>
    /\ ret.exc = "AttributeError"

----------------------------------------------------------------------------
(* Singleton, several threads.  The interpreter may switch threads between *)
(* any two of the statements of __new__ and initialize, so each statement  *)
(* is a step of its own.                                                   *)

\* line 19, the check
T_NewCheck(t) ==
    /\ pc[t] = "idle"
    /\ pc' = [pc EXCEPT ![t] = IF NewMustConstruct(slot)
                               THEN "new_construct" ELSE "new_return"]
    /\ UNCHANGED <<instances, slot, refs, calls, self, arg, ret, notSingleton>>

\* line 20, the allocation and the assignment to the slot
T_NewConstruct(t) ==
    /\ pc[t] = "new_construct"
    /\ LET a == NewAssign(instances, slot)
       IN  /\ instances' = a.heap
           /\ slot' = a.inst
    /\ pc' = [pc EXCEPT ![t] = "new_setflag"]
    /\ UNCHANGED <<refs, calls, self, arg, ret, notSingleton>>

\* line 22, on the object the slot holds now
T_NewSetFlag(t) ==
    /\ pc[t] = "new_setflag"
    /\ instances' = NewSetFlag(instances, slot)
    /\ pc' = [pc EXCEPT ![t] = "new_return"]
    /\ UNCHANGED <<slot, refs, calls, self, arg, ret, notSingleton>>

\* line 23, returning what the slot holds now
T_NewReturn(t) ==
    /\ pc[t] = "new_return"
    /\ self' = [self EXCEPT ![t] = slot]
    /\ ret' = Returned("Singleton", slot, <<>>)
    /\ pc' = [pc EXCEPT ![t] = "idle"]
    /\ UNCHANGED <<instances, slot, refs, calls, arg, notSingleton>>

\* line 27, the test of self._initialized, and line 31
T_InitCheck(t) ==
    \E d \in Data :
        /\ pc[t] = "idle"
        /\ self[t] # PyNone
        /\ LET obj == instances[self[t].v]
           IN  IF ~HasAttr(obj, "_initialized")
               THEN /\ ret' = Raised("initialize", "AttributeError")
                    /\ UNCHANGED <<pc, arg>>
               ELSE IF ~Truthy(obj["_initialized"])
               THEN /\ pc' = [pc EXCEPT ![t] = "init_setdata"]
                    /\ arg' = [arg EXCEPT ![t] = d]
                    /\ UNCHANGED ret
               ELSE /\ ret' = Returned("initialize", PyNone, <<AlreadyMsg>>)
                    /\ UNCHANGED <<pc, arg>>
        /\ UNCHANGED <<instances, slot, refs, calls, self, notSingleton>>

\* line 28
T_InitSetData(t) ==
    /\ pc[t] = "init_setdata"
    /\ instances' = [instances EXCEPT ![self[t].v] = SetAttr(@, "data", arg[t])]
    /\ pc' = [pc EXCEPT ![t] = "init_setflag"]
    /\ UNCHANGED <<slot, refs, calls, self, arg, ret, notSingleton>>

\* line 29
T_InitSetFlag(t) ==
    /\ pc[t] = "init_setflag"
    /\ instances' = [instances EXCEPT ![self[t].v] =
                        SetAttr(@, "_initialized", PyBool(TRUE))]
    /\ pc' = [pc EXCEPT ![t] = "idle"]
    /\ arg' = [arg EXCEPT ![t] = PyNone]
    /\ ret' = Returned("initialize", PyNone, <<>>)
    /\ UNCHANGED <<slot, refs, calls, self, notSingleton>>

\* line 35
T_GetData(t) ==
    /\ pc[t] = "idle"
    /\ self[t] # PyNone
    /\ ret' = SingletonGetData(instances, self[t].v).ret
    /\ UNCHANGED <<instances, slot, refs, calls, pc, self, arg, notSingleton>>

RaceNext ==
    \E t \in Threads :
        \/ T_NewCheck(t)
        \/ T_NewConstruct(t)
        \/ T_NewSetFlag(t)
        \/ T_NewReturn(t)
        \/ T_InitCheck(t)
        \/ T_InitSetData(t)
        \/ T_InitSetFlag(t)
        \/ T_GetData(t)
RaceSpec == Init /\ [][RaceNext]_vars

\* C10: the check-and-construct step is not guarded: whenever a thread that
\* passed the emptiness check executes the assignment, a new instance is
\* constructed and the slot is replaced by it, also when another thread has
\* filled the slot in between; the new instance carries neither the flag set
\* nor a payload.
C10_UnguardedConstruct ==
    [][\A t \in Threads :
          (pc[t] = "new_construct" /\ pc'[t] = "new_setflag") =>
              /\ Len(instances') = Len(instances) + 1
              /\ slot' = PyRef(Len(instances'))
              /\ slot' # slot
              /\ instances'[slot'.v] = EmptyObj]_vars

\* Two instances were constructed; the first was initialized with a payload,
\* and the slot now holds the second, whose flag is false and which has no
\* payload.
C10_Witness ==
    /\ Len(instances) = 2
    /\ slot = PyRef(2)
    /\ HasAttr(instances[1], "data")
    /\ instances[1]["_initialized"] = PyBool(TRUE)
    /\ HasAttr(instances[2], "_initialized")
    /\ instances[2]["_initialized"] = PyBool(FALSE)
    /\ ~HasAttr(instances[2], "data")
    /\ \E t \in Threads : self[t] = PyRef(1)

----------------------------------------------------------------------------
(* Pizza and the builders                                                  *)

MaxSteps == 5
PizzaRef(i) == [t |-> "Pizza", v |-> i]
BuilderRef(i) == [t |-> "Builder", v |-> i]
BuilderClasses == {"PizzaBuilder", "VeggiePizzaBuilder", "MeatLoversPizzaBuilder"}
Doughs == {PyStr("Thin"), PyStr("Pan")}
Sauces == {PyStr("Marinara"), PyStr("Pesto")}
Cheeses == {PyStr("Mozzarella")}
Toppings == {PyStr("Olives")}
VeggieLists == {PyList(<<PyStr("Pepper"), PyStr("Onion")>>)}
MeatLists == {PyList(<<PyStr("Ham")>>)}

\* list.append(x) and list.extend(iterable) on a list value
ListAppend(l, x) == PyList(Append(l.v, x))
ListExtend(l, it) == PyList(l.v \o it.v)

\* Pizza.__init__: the attributes of a new Pizza
Pizza_init ==
    [a \in {"dough", "sauce", "cheese", "toppings"} |->
        IF a \in {"dough", "sauce"} THEN PyNone ELSE PyList(<<>>)]

\* self.pizza of builder me
PizzaOf(bs, me) == bs[me.v].pizza

\* PizzaBuilder.__init__ for a builder of class cls: a new Pizza is
\* allocated and the new builder refers to it.
PizzaBuilder_init(pz, bs, cls) ==
    [pizzas |-> Append(pz, Pizza_init),
     builders |-> Append(bs, [cls |-> cls, pizza |-> PizzaRef(Len(pz) + 1)]),
     val |-> BuilderRef(Len(bs) + 1)]

add_dough(pz, bs, me, dough) ==
    [pizzas |-> [pz EXCEPT ![PizzaOf(bs, me).v] = SetAttr(@, "dough", dough)],
     builders |-> bs, val |-> me]

add_sauce(pz, bs, me, sauce) ==
    [pizzas |-> [pz EXCEPT ![PizzaOf(bs, me).v] = SetAttr(@, "sauce", sauce)],
     builders |-> bs, val |-> me]

add_cheese(pz, bs, me, cheese) ==
    [pizzas |-> [pz EXCEPT ![PizzaOf(bs, me).v] =
                   SetAttr(@, "cheese", ListAppend(@["cheese"], cheese))],
     builders |-> bs, val |-> me]

add_topping(pz, bs, me, topping) ==
    [pizzas |-> [pz EXCEPT ![PizzaOf(bs, me).v] =
                   SetAttr(@, "toppings", ListAppend(@["toppings"], topping))],
     builders |-> bs, val |-> me]

\* Mutant: build hands the pizza out and starts the builder on a new one.
BuildResets(pz, bs, me) ==
    [pizzas |-> Append(pz, Pizza_init),
     builders |-> [bs EXCEPT ![me.v].pizza = PizzaRef(Len(pz) + 1)],
     val |-> PizzaOf(bs, me)]

\* PizzaBuilder.build: the builder's own Pizza object, not a copy
build(pz, bs, me) == [pizzas |-> pz, builders |-> bs, val |-> PizzaOf(bs, me)]

\* VeggiePizzaBuilder.add_veggies / MeatLoversPizzaBuilder.add_meats
add_veggies(pz, bs, me, veggies) ==
    [pizzas |-> [pz EXCEPT ![PizzaOf(bs, me).v] =
                   SetAttr(@, "toppings", ListExtend(@["toppings"], veggies))],
     builders |-> bs, val |-> me]

add_meats(pz, bs, me, meats) ==
    [pizzas |-> [pz EXCEPT ![PizzaOf(bs, me).v] =
                   SetAttr(@, "toppings", ListExtend(@["toppings"], meats))],
     builders |-> bs, val |-> me]

\* VeggiePizzaBuilder.__init__: add_cheese is given a list
VeggiePizzaBuilder_init(pz, bs) ==
    LET s0 == PizzaBuilder_init(pz, bs, "VeggiePizzaBuilder")
        s1 == add_dough(s0.pizzas, s0.builders, s0.val, PyStr("Thin crust"))
        s2 == add_sauce(s1.pizzas, s1.builders, s0.val, PyStr("Marinara"))
        s3 == add_cheese(s2.pizzas, s2.builders, s0.val,
                         PyList(<<PyStr("Mozzarella")>>))
    IN  [pizzas |-> s3.pizzas, builders |-> s3.builders, val |-> s0.val]

\* MeatLoversPizzaBuilder.__init__: add_cheese is given a list
MeatLoversPizzaBuilder_init(pz, bs) ==
    LET s0 == PizzaBuilder_init(pz, bs, "MeatLoversPizzaBuilder")
        s1 == add_dough(s0.pizzas, s0.builders, s0.val, PyStr("Thick crust"))
        s2 == add_sauce(s1.pizzas, s1.builders, s0.val, PyStr("Tomato"))
        s3 == add_cheese(s2.pizzas, s2.builders, s0.val,
                         PyList(<<PyStr("Mozzarella"), PyStr("Cheddar")>>))
    IN  [pizzas |-> s3.pizzas, builders |-> s3.builders, val |-> s0.val]

\* cls()
Construct(cls, pz, bs) ==
    CASE cls = "VeggiePizzaBuilder" -> VeggiePizzaBuilder_init(pz, bs)
      [] cls = "MeatLoversPizzaBuilder" -> MeatLoversPizzaBuilder_init(pz, bs)
      [] OTHER -> PizzaBuilder_init(pz, bs, cls)

notPizza == <<singletonVars, protoVars, shapeVars, guiVars>>
BuilderRefs == {BuilderRef(i) : i \in 1..Len(builders)}

\* The state after b = cls(), for each of the three builder classes.
PizzaInit ==
    /\ \E cls \in BuilderClasses :
          LET s == Construct(cls, <<>>, <<>>)
          IN  pizzas = s.pizzas /\ builders = s.builders
    /\ SingletonInit /\ ProtoIdle /\ ShapeIdle /\ GuiIdle
    /\ calls = <<>>
    /\ ret = NoCall

\* A builder call that ended with r: the new heaps, the returned value and
\* the history record (for build, with the contents of the returned Pizza).
PizzaCall(op, me, data, r) ==
    /\ Len(calls) < MaxSteps
    /\ pizzas' = r.pizzas
    /\ builders' = r.builders
    /\ ret' = Returned(op, r.val, <<>>)
    /\ calls' = Append(calls,
          [op |-> op, on |-> me, data |-> data, val |-> r.val,
           snap |-> IF op = "build" THEN r.pizzas[r.val.v] ELSE PyNone])
    /\ UNCHANGED notPizza

AddDough ==
    \E me \in BuilderRefs, d \in Doughs :
        PizzaCall("add_dough", me, d, add_dough(pizzas, builders, me, d))

AddSauce ==
    \E me \in BuilderRefs, d \in Sauces :
        PizzaCall("add_sauce", me, d, add_sauce(pizzas, builders, me, d))

AddCheese ==
    \E me \in BuilderRefs, d \in Cheeses :
        PizzaCall("add_cheese", me, d, add_cheese(pizzas, builders, me, d))

AddTopping ==
    \E me \in BuilderRefs, d \in Toppings :
        PizzaCall("add_topping", me, d, add_topping(pizzas, builders, me, d))

AddVeggies ==
    \E me \in BuilderRefs, d \in VeggieLists :
        /\ builders[me.v].cls = "VeggiePizzaBuilder"
        /\ PizzaCall("add_veggies", me, d, add_veggies(pizzas, builders, me, d))

AddMeats ==
    \E me \in BuilderRefs, d \in MeatLists :
        /\ builders[me.v].cls = "MeatLoversPizzaBuilder"
        /\ PizzaCall("add_meats", me, d, add_meats(pizzas, builders, me, d))

Build ==
    \E me \in BuilderRefs :
        PizzaCall("build", me, PyNone, build(pizzas, builders, me))

PizzaNext ==
    AddDough \/ AddSauce \/ AddCheese \/ AddTopping \/ AddVeggies \/ AddMeats \/ Build
PizzaSpec == PizzaInit /\ [][PizzaNext]_vars

----------------------------------------------------------------------------
(* Pizza and the builders: claims                                          *)

\* The record with the given field values.
PizzaRecord(dough, sauce, cheese, toppings) ==
    [a \in {"dough", "sauce", "cheese", "toppings"} |->
        CASE a = "dough" -> dough
          [] a = "sauce" -> sauce
          [] a = "cheese" -> PyList(cheese)
          [] OTHER -> PyList(toppings)]

\* The calls the constructor of class cls makes on the new builder.
CtorCalls(cls) ==
    CASE cls = "VeggiePizzaBuilder" ->
           <<[op |-> "add_dough", data |-> PyStr("Thin crust")],
             [op |-> "add_sauce", data |-> PyStr("Marinara")],
             [op |-> "add_cheese", data |-> PyList(<<PyStr("Mozzarella")>>)]>>
      [] cls = "MeatLoversPizzaBuilder" ->
           <<[op |-> "add_dough", data |-> PyStr("Thick crust")],
             [op |-> "add_sauce", data |-> PyStr("Tomato")],
             [op |-> "add_cheese",
               data |-> PyList(<<PyStr("Mozzarella"), PyStr("Cheddar")>>)]>>
      [] OTHER -> <<>>

\* The steps applied to builder me by the first n calls, the constructor's first.
StepsOn(me, n) ==
    LET OnMe(c) == c.on = me
        mine == SelectSeq(SubSeq(calls, 1, n), OnMe)
    IN  CtorCalls(builders[me.v].cls) \o [i \in 1..Len(mine) |->
                                            [op |-> mine[i].op, data |-> mine[i].data]]

\* Argument of the most recent call of op in cs, None when there is none.
LastArg(cs, op) ==
    LET at == {i \in 1..Len(cs) : cs[i].op = op}
    IN  IF at = {} THEN PyNone
        ELSE cs[CHOOSE i \in at : \A j \in at : j <= i].data

\* Arguments of the calls of op in cs, in call order.
ArgsOf(cs, op) ==
    LET IsOp(c) == c.op = op
        sel == SelectSeq(cs, IsOp)
    IN  [i \in 1..Len(sel) |-> sel[i].data]

\* Toppings added by cs in call order: add_topping adds its argument, the
\* bulk steps add the elements of theirs.
RECURSIVE ToppingsOf(_)
ToppingsOf(cs) ==
    IF cs = <<>> THEN <<>>
    ELSE LET c == cs[Len(cs)]
             before == ToppingsOf(SubSeq(cs, 1, Len(cs) - 1))
         IN  CASE c.op = "add_topping" -> Append(before, c.data)
               [] c.op \in {"add_veggies", "add_meats"} -> before \o c.data.v
               [] OTHER -> before

\* What the steps cs amount to.
Reflecting(cs) ==
    PizzaRecord(LastArg(cs, "add_dough"), LastArg(cs, "add_sauce"),
                ArgsOf(cs, "add_cheese"), ToppingsOf(cs))

\* C4: once build() has returned a Pizza, later steps on the builder do not
\* affect it: the returned object still has the contents it had when build
\* returned it.
C4_BuiltUnaffected ==
    \A i \in 1..Len(calls) :
        calls[i].op = "build" => pizzas[calls[i].val.v] = calls[i].snap

\* C5: VeggiePizzaBuilder().add_veggies(vs).build() yields dough "Thin crust",
\* sauce "Marinara", cheese the flat sequence of the one string "Mozzarella",
\* and toppings vs.
C5_VeggiePreset ==
    ( /\ Len(builders) = 1
      /\ builders[1].cls = "VeggiePizzaBuilder"
      /\ Len(calls) = 2
      /\ calls[1].op = "add_veggies"
      /\ calls[2].op = "build" )
    => calls[2].snap = PizzaRecord(PyStr("Thin crust"), PyStr("Marinara"),
                                   <<PyStr("Mozzarella")>>, calls[1].data.v)

\* C6: every step returns the builder it was called on; build returns a
\* record reflecting all steps applied to the builder so far (dough and
\* sauce the most recent argument or None, cheese and toppings the arguments
\* in call order); build does not reset the builder: two builds with no step
\* in between return equal contents; and the chain add_dough("Thin"),
\* add_sauce("Marinara"), add_cheese("Mozzarella"), add_topping("Olives"),
\* build() on a PizzaBuilder yields exactly those four values.
C6_BuilderCumulative ==
    /\ \A i \in 1..Len(calls) :
          /\ calls[i].op # "build" => calls[i].val = calls[i].on
          /\ calls[i].op = "build" =>
                calls[i].snap = Reflecting(StepsOn(calls[i].on, i))
          /\ ( /\ i > 1
               /\ calls[i].op = "build"
               /\ calls[i - 1].op = "build"
               /\ calls[i - 1].on = calls[i].on )
             => calls[i].snap = calls[i - 1].snap
    /\ \A me \in BuilderRefs :
          pizzas[PizzaOf(builders, me).v] = Reflecting(StepsOn(me, Len(calls)))
    /\ ( /\ Len(calls) = 5
         /\ builders[1].cls = "PizzaBuilder"
         /\ [i \in 1..5 |-> [op |-> calls[i].op, data |-> calls[i].data]] =
              <<[op |-> "add_dough", data |-> PyStr("Thin")],
                [op |-> "add_sauce", data |-> PyStr("Marinara")],
                [op |-> "add_cheese", data |-> PyStr("Mozzarella")],
                [op |-> "add_topping", data |-> PyStr("Olives")],
                [op |-> "build", data |-> PyNone]>> )
       => calls[5].snap = PizzaRecord(PyStr("Thin"), PyStr("Marinara"),
                                      <<PyStr("Mozzarella")>>, <<PyStr("Olives")>>)

\* The build at the end of the example chain has returned.
C6_Witness ==
    /\ Len(calls) = 5
    /\ builders[1].cls = "PizzaBuilder"
    /\ calls[1].op = "add_dough" /\ calls[1].data = PyStr("Thin")
    /\ calls[2].op = "add_sauce" /\ calls[2].data = PyStr("Marinara")
    /\ calls[3].op = "add_cheese"
    /\ calls[4].op = "add_topping"
    /\ calls[5].op = "build"
    /\ pizzas[calls[5].val.v]["toppings"] = PyList(<<PyStr("Olives")>>)

----------------------------------------------------------------------------
(* Prototype                                                               *)

MaxObjs == 3
MaxLen == 2
ObjRef(i) == [t |-> "Prototype", v |-> i]
ListRef(i) == [t |-> "listref", v |-> i]
ProtoClasses == {"ConcretePrototype1", "ConcretePrototype2"}
InitScalars == {PyInt(5)}
NewScalars == {PyInt(10)}

\* The one attribute __init__ sets: data (line 290) or value (line 300).
FieldOf(cls) == IF cls = "ConcretePrototype1" THEN "data" ELSE "value"

\* ConcretePrototype1(v) / ConcretePrototype2(v)
ConcretePrototype_init(os, cls, v) ==
    [objs |-> Append(os, [cls |-> cls, dict |-> SetAttr(EmptyObj, FieldOf(cls), v)]),
     val |-> ObjRef(Len(os) + 1)]

\* Mutant: clone copies the lists its fields refer to (copy.deepcopy).
CloneDeep(os, ls, me) ==
    LET d == os[me.v].dict
        f == FieldOf(os[me.v].cls)
    IN  IF d[f].t = "listref"
        THEN [objs |-> Append(os, [cls |-> os[me.v].cls,
                                   dict |-> SetAttr(d, f, ListRef(Len(ls) + 1))]),
              lists |-> Append(ls, ls[d[f].v]),
              val |-> ObjRef(Len(os) + 1)]
        ELSE [objs |-> Append(os, os[me.v]), lists |-> ls,
              val |-> ObjRef(Len(os) + 1)]

\* Prototype.clone: copy.copy(self) makes a new object of the same class
\* whose __dict__ holds the same values; a list a field refers to is not
\* copied.
clone(os, ls, me) ==
    [objs |-> Append(os, [cls |-> os[me.v].cls, dict |-> os[me.v].dict]),
     lists |-> ls,
     val |-> ObjRef(Len(os) + 1)]

\* What reading the field of object i gives: the value, or for a list the
\* contents of the list referred to.
View(os, ls, i) ==
    LET v == os[i].dict[FieldOf(os[i].cls)]
    IN  IF v.t = "listref" THEN PyList(ls[v.v]) ELSE v

notProto == <<singletonVars, pizzaVars, shapeVars, guiVars>>
ObjRefs == {ObjRef(i) : i \in 1..Len(objs)}
ProtoReturned(op, me, v) ==
    [op |-> op, exc |-> "", val |-> v, printed |-> <<>>, on |-> me]

ProtoInit ==
    /\ ProtoIdle
    /\ SingletonInit /\ PizzaIdle /\ ShapeIdle /\ GuiIdle
    /\ calls = <<>>
    /\ ret = NoCall

\* p = ConcretePrototypeN(v) with a number
NewProto ==
    \E cls \in ProtoClasses, v \in InitScalars :
        /\ Len(objs) < MaxObjs
        /\ LET r == ConcretePrototype_init(objs, cls, v)
           IN  objs' = r.objs /\ ret' = ProtoReturned(cls, PyNone, r.val)
        /\ UNCHANGED <<lists, pairs, calls, notProto>>

\* p = ConcretePrototypeN([1]): the list is a new object
NewProtoWithList ==
    \E cls \in ProtoClasses :
        /\ Len(objs) < MaxObjs
        /\ lists' = Append(lists, <<PyInt(1)>>)
        /\ LET r == ConcretePrototype_init(objs, cls, ListRef(Len(lists) + 1))
           IN  objs' = r.objs /\ ret' = ProtoReturned(cls, PyNone, r.val)
        /\ UNCHANGED <<pairs, calls, notProto>>

\* c = p.clone()
Clone ==
    \E me \in ObjRefs :
        /\ Len(objs) < MaxObjs
        /\ LET r == clone(objs, lists, me)
           IN  /\ objs' = r.objs
               /\ lists' = r.lists
               /\ ret' = ProtoReturned("clone", me, r.val)
               /\ pairs' = pairs \cup {[src |-> me, new |-> r.val,
                                       snap |-> View(objs, lists, me.v),
                                       reassigned |-> FALSE]}
        /\ UNCHANGED <<calls, notProto>>

\* p.data = v (p.value = v for a ConcretePrototype2)
Reassign ==
    \E me \in ObjRefs, v \in NewScalars :
        /\ objs' = [objs EXCEPT ![me.v].dict = SetAttr(@, FieldOf(objs[me.v].cls), v)]
        /\ ret' = ProtoReturned("setattr", me, PyNone)
        /\ pairs' = {IF me \in {q.src, q.new} THEN [q EXCEPT !.reassigned = TRUE] ELSE q :
                       q \in pairs}
        /\ UNCHANGED <<lists, calls, notProto>>

\* p.data.append(2): the list the field refers to is changed in place
AppendInPlace ==
    \E me \in ObjRefs :
        LET v == objs[me.v].dict[FieldOf(objs[me.v].cls)]
        IN  /\ v.t = "listref"
            /\ Len(lists[v.v]) < MaxLen
            /\ lists' = [lists EXCEPT ![v.v] = Append(@, PyInt(2))]
            /\ ret' = ProtoReturned("append", me, PyNone)
            /\ UNCHANGED <<objs, pairs, calls, notProto>>

ProtoNext == NewProto \/ NewProtoWithList \/ Clone \/ Reassign \/ AppendInPlace
ProtoSpec == ProtoInit /\ [][ProtoNext]_vars

\* C7: clone returns a new instance, not identical to its source, of the
\* same class and with the same field values as the source has at that
\* moment, and changes no existing object; reassigning a field of one object
\* leaves every other object's field as it was; and an in-place change of a
\* list held in a field shows through source and clone alike, as long as
\* neither had the field reassigned.
C7_ShallowClone ==
    [][ /\ ret'.op = "clone" =>
              LET s == ret'.on.v
                  n == ret'.val.v
              IN  /\ n # s
                  /\ n \notin 1..Len(objs)
                  /\ Len(objs') = Len(objs) + 1
                  /\ objs'[n].cls = objs[s].cls
                  /\ objs'[n].dict = objs[s].dict
                  /\ View(objs', lists', n) = View(objs, lists, s)
                  /\ \A i \in 1..Len(objs) : objs'[i] = objs[i]
                  /\ lists' = lists
        /\ ret'.op = "setattr" =>
              \A i \in 1..Len(objs) :
                  i # ret'.on.v =>
                      /\ objs'[i] = objs[i]
                      /\ View(objs', lists', i) = View(objs, lists, i)
        /\ ret'.op = "append" =>
              \A q \in pairs :
                  (~q.reassigned /\ ret'.on \in {q.src, q.new}) =>
                      /\ View(objs', lists', q.src.v) = View(objs', lists', q.new.v)
                      /\ View(objs', lists', q.src.v) =
                            ListAppend(View(objs, lists, q.src.v), PyInt(2))
      ]_vars

\* A list held by a source and its clone was appended to after the clone was
\* made, and the source shows the longer list; the clone's field was then
\* set to 10, and the source still shows the list.
C7_Witness ==
    \E q \in pairs :
        /\ q.snap = PyList(<<PyInt(1)>>)
        /\ q.reassigned
        /\ View(objs, lists, q.new.v) = PyInt(10)
        /\ View(objs, lists, q.src.v) = PyList(<<PyInt(1), PyInt(2)>>)

----------------------------------------------------------------------------
(* ShapeFactory.  A string is the sequence of its characters.              *)

LowerLetters == <<"a", "c", "e", "g", "i", "l", "n", "q", "r", "s", "t", "u">>
UpperLetters == <<"A", "C", "E", "G", "I", "L", "N", "Q", "R", "S", "T", "U">>

\* str.lower(): an upper-case letter becomes its lower-case letter, any
\* other character stays.
lower_char(c) ==
    IF \E i \in 1..Len(UpperLetters) : UpperLetters[i] = c
    THEN LowerLetters[CHOOSE i \in 1..Len(UpperLetters) : UpperLetters[i] = c]
    ELSE c
lower(str) == [i \in 1..Len(str) |-> lower_char(str[i])]

\* The literals "circle" and "square" of lines 79 and 81.
CircleWord == <<"c", "i", "r", "c", "l", "e">>
SquareWord == <<"s", "q", "u", "a", "r", "e">>

\* Circle() and Square(): objects without attributes, told apart by class.
CircleObj == [t |-> "Circle"]
SquareObj == [t |-> "Square"]

\* line 84: the printed notice quotes the argument as given
Notice(shape_type_) == <<"Shape type '", shape_type_, "' not recognized.">>

\* Mutant: the argument is compared as given, without lower().
CreateShapeCaseSensitive(shape_type_) ==
    IF shape_type_ = CircleWord
    THEN Returned("create_shape", CircleObj, <<>>)
    ELSE IF shape_type_ = SquareWord
    THEN Returned("create_shape", SquareObj, <<>>)
    ELSE Returned("create_shape", PyNone, <<Notice(shape_type_)>>)

\* ShapeFactory.create_shape
create_shape(shape_type_) ==
    IF lower(shape_type_) = CircleWord
    THEN Returned("create_shape", CircleObj, <<>>)
    ELSE IF lower(shape_type_) = SquareWord
    THEN Returned("create_shape", SquareObj, <<>>)
    ELSE Returned("create_shape", PyNone, <<Notice(shape_type_)>>)

\* Circle.draw / Square.draw; None has no draw
draw(shape) ==
    CASE shape = CircleObj -> Returned("draw", <<"Drawing", "a", "circle">>, <<>>)
      [] shape = SquareObj -> Returned("draw", <<"Drawing", "a", "square">>, <<>>)
      [] OTHER -> Raised("draw", "AttributeError")

\* The arguments tried: every upper/lower-case spelling of three words, and
\* strings that are near a registered word without being a spelling of it.
upper_char(c) ==
    IF \E i \in 1..Len(LowerLetters) : LowerLetters[i] = c
    THEN UpperLetters[CHOOSE i \in 1..Len(LowerLetters) : LowerLetters[i] = c]
    ELSE c
Spellings(w) ==
    {[i \in 1..Len(w) |-> IF i \in U THEN upper_char(w[i]) ELSE w[i]] :
        U \in SUBSET (1..Len(w))}
TriangleWord == <<"t", "r", "i", "a", "n", "g", "l", "e">>
ShapeInputs ==
    Spellings(CircleWord) \cup Spellings(SquareWord) \cup Spellings(TriangleWord)
    \cup {<<>>, SubSeq(CircleWord, 1, 5), Append(CircleWord, "s"),
          <<" ">> \o CircleWord, Append(SquareWord, " "),
          <<"c", "1", "r", "c", "l", "e">>, CircleWord \o SquareWord}

notShape == <<singletonVars, pizzaVars, protoVars, guiVars>>

ShapeInit ==
    /\ ShapeIdle
    /\ SingletonInit /\ PizzaIdle /\ ProtoIdle /\ GuiIdle
    /\ calls = <<>>
    /\ ret = NoCall

\* shape = ShapeFactory.create_shape(shape_type)
CreateShape ==
    \E st \in ShapeInputs :
        /\ shape_type' = st
        /\ ret' = create_shape(st)
        /\ UNCHANGED <<calls, notShape>>

\* shape.draw() on the result of the last create_shape
Draw ==
    /\ ret.op = "create_shape"
    /\ ret' = draw(ret.val)
    /\ UNCHANGED <<shape_type, calls, notShape>>

ShapeNext == CreateShape \/ Draw
ShapeSpec == ShapeInit /\ [][ShapeNext]_vars

\* str is w with each letter in either case.
IsSpelling(str, w) ==
    /\ Len(str) = Len(w)
    /\ \A i \in 1..Len(w) : str[i] \in {w[i], upper_char(w[i])}

\* C8: create_shape matches its argument case-insensitively: every
\* upper/lower-case spelling of "circle" yields a Circle and of "square" a
\* Square, and any other string yields None together with a printed notice;
\* no call raises.
C8_CreateShape ==
    ret.op = "create_shape" =>
        /\ ret.exc = ""
        /\ IsSpelling(shape_type, CircleWord) =>
              ret.val = CircleObj /\ ret.printed = <<>>
        /\ IsSpelling(shape_type, SquareWord) =>
              ret.val = SquareObj /\ ret.printed = <<>>
        /\ (~IsSpelling(shape_type, CircleWord) /\ ~IsSpelling(shape_type, SquareWord)) =>
              ret.val = PyNone /\ ret.printed = <<Notice(shape_type)>>

\* create_shape("triangle") has returned None and printed its notice.
C8_Witness ==
    /\ ret.op = "create_shape"
    /\ shape_type = TriangleWord
    /\ ret.val = PyNone
    /\ Len(ret.printed) = 1

----------------------------------------------------------------------------
(* The GUI abstract factory.  A text is the sequence of its words.         *)

MaxWidgets == 4
Factories == {"WindowsGUIFactory", "MacGUIFactory"}

\* Mutant: the Mac factory hands out the Windows text box.
CreateTextboxMixed(factory) == [t |-> "WindowsTextBox"]

\* WindowsGUIFactory.create_button / MacGUIFactory.create_button
create_button(factory) ==
    IF factory = "WindowsGUIFactory"
    THEN [t |-> "WindowsButton"]
    ELSE [t |-> "MacButton"]

\* WindowsGUIFactory.create_textbox / MacGUIFactory.create_textbox
create_textbox(factory) ==
    IF factory = "WindowsGUIFactory"
    THEN [t |-> "WindowsTextBox"]
    ELSE [t |-> "MacTextBox"]

\* WindowsButton.render / MacButton.render
render(button) ==
    IF button.t = "WindowsButton"
    THEN <<"Rendering", "a", "Windows", "button">>
    ELSE <<"Rendering", "a", "Mac", "button">>

\* WindowsTextBox.display / MacTextBox.display
display(textbox) ==
    IF textbox.t = "WindowsTextBox"
    THEN <<"Displaying", "a", "Windows", "text", "box">>
    ELSE <<"Displaying", "a", "Mac", "text", "box">>

\* create_ui(factory): the two widgets it creates and the two lines it prints
create_ui(factory) ==
    LET button == create_button(factory)
        textbox == create_textbox(factory)
    IN  [button |-> button, textbox |-> textbox,
         printed |-> <<render(button), display(textbox)>>]

notGui == <<singletonVars, pizzaVars, protoVars, shapeVars>>

GuiInit ==
    /\ GuiIdle
    /\ SingletonInit /\ PizzaIdle /\ ProtoIdle /\ ShapeIdle
    /\ calls = <<>>
    /\ ret = NoCall

\* A widget on record: the object and the factory that made it.
Made(w, factory) == [w |-> w, by |-> factory]

\* b = factory.create_button()
CreateButton ==
    \E f \in Factories :
        /\ Len(widgets) < MaxWidgets
        /\ widgets' = Append(widgets, Made(create_button(f), f))
        /\ ret' = Returned("create_button", create_button(f), <<>>)
        /\ UNCHANGED <<stdout, calls, notGui>>

\* t = factory.create_textbox()
CreateTextbox ==
    \E f \in Factories :
        /\ Len(widgets) < MaxWidgets
        /\ widgets' = Append(widgets, Made(create_textbox(f), f))
        /\ ret' = Returned("create_textbox", create_textbox(f), <<>>)
        /\ UNCHANGED <<stdout, calls, notGui>>

\* create_ui(factory)
CreateUi ==
    \E f \in Factories :
        /\ Len(widgets) + 2 <= MaxWidgets
        /\ LET r == create_ui(f)
           IN  /\ widgets' = widgets \o <<Made(r.button, f), Made(r.textbox, f)>>
               /\ stdout' = stdout \o r.printed
               /\ ret' = Returned("create_ui", PyNone, r.printed)
        /\ UNCHANGED <<calls, notGui>>

\* b.render() on a button made earlier
Render ==
    \E i \in 1..Len(widgets) :
        /\ widgets[i].w.t \in {"WindowsButton", "MacButton"}
        /\ ret' = Returned("render", render(widgets[i].w), <<>>)
        /\ UNCHANGED <<widgets, stdout, calls, notGui>>

\* t.display() on a text box made earlier
Display ==
    \E i \in 1..Len(widgets) :
        /\ widgets[i].w.t \in {"WindowsTextBox", "MacTextBox"}
        /\ ret' = Returned("display", display(widgets[i].w), <<>>)
        /\ UNCHANGED <<widgets, stdout, calls, notGui>>

GuiNext == CreateButton \/ CreateTextbox \/ CreateUi \/ Render \/ Display
GuiSpec == GuiInit /\ [][GuiNext]_vars

\* The platform of a factory, and whether a text names a platform.
PlatformOf(factory) == IF factory = "WindowsGUIFactory" THEN "Windows" ELSE "Mac"
Platforms == {"Windows", "Mac"}
NamesOnly(text, platform) ==
    /\ \E i \in 1..Len(text) : text[i] = platform
    /\ \A i \in 1..Len(text) : text[i] \notin Platforms \ {platform}
IsButton(w) == w.t \in {"WindowsButton", "MacButton"}
TextOf(w) == IF IsButton(w) THEN render(w) ELSE display(w)

\* C9: every widget a concrete factory produced carries the factory's
\* platform: its render()/display() text names that platform and not the
\* other; and the two lines create_ui prints for one factory name the same
\* platform.
C9_SamePlatform ==
    /\ \A i \in 1..Len(widgets) :
          NamesOnly(TextOf(widgets[i].w), PlatformOf(widgets[i].by))
    /\ \A k \in 1..Len(stdout) :
          k % 2 = 1 =>
              \E p \in Platforms : NamesOnly(stdout[k], p) /\ NamesOnly(stdout[k + 1], p)

\* Both factories made widgets, and create_ui printed a pair for the Mac one.
C9_Witness ==
    /\ \E i, j \in 1..Len(widgets) :
          /\ widgets[i].by = "WindowsGUIFactory" /\ IsButton(widgets[i].w)
          /\ widgets[j].by = "MacGUIFactory" /\ ~IsButton(widgets[j].w)
    /\ ret.op = "create_ui"
    /\ Len(stdout) >= 2
    /\ NamesOnly(stdout[Len(stdout)], "Mac")

====
